---- MODULE Spec2Model ----
(***************************************************************************)
(* Model of fix_memory_imports.py: the declaration inserter                *)
(* (add_memory_module_to_lib), the import rewriting rules                  *)
(* (transform_external_imports, transform_internal_memory_imports), the    *)
(* file processor (process_rust_file) and the driver (main).               *)
(*                                                                         *)
(* File text is a sequence of lexemes.  The text a sequence stands for is  *)
(* the concatenation of its lexemes, and every regular expression of the   *)
(* source is matched as Python's re matches it on that concatenation:      *)
(* adjacent word lexemes form one identifier, a match of the literal "use" *)
(* may begin inside a lexeme that ends in "use" (the patterns carry no     *)
(* word boundary), \s covers the blank and the newline.                    *)
(***************************************************************************)
EXTENDS Integers, Sequences, FiniteSets, TLC

\* ------------------------------------------------------------- lexemes

SP == " "
NL == "\n"
\* The comment line add_memory_module_to_lib inserts above the declaration.
DOC == "/// Memory system with cognitive features and vector storage"

\* Lexemes matched by \s.
WS == {SP, NL}

\* Lexemes that consist of \w characters only.
Word == {"use", "reuse", "crate", "memory", "Error", "Result", "x", "a",
         "pub", "mod", "paraphym_memory", "paraphym_candle"}

\* Lexemes whose text ends with the three characters "use".
EndsWithUse(t) == t \in {"use", "reuse"}

\* Lexemes whose text starts with "//".
StartsWithSlashes(t) == t \in {"//", DOC}

At(c, i) == IF i >= 1 /\ i <= Len(c) THEN c[i] ELSE "<eof>"

\* The suffix of c from position i on (c[i:]).
From(c, i) == IF i > Len(c) THEN <<>> ELSE SubSeq(c, i, Len(c))

RECURSIVE SkipWs(_, _)
\* \s* from position i: the first position that holds no whitespace.
SkipWs(c, i) == IF At(c, i) \in WS THEN SkipWs(c, i + 1) ELSE i

RECURSIVE SkipWord(_, _)
\* \w* from position i: the first position that holds no word lexeme.
SkipWord(c, i) == IF At(c, i) \in Word THEN SkipWord(c, i + 1) ELSE i

RECURSIVE Flatten(_)
Flatten(ss) == IF ss = <<>> THEN <<>> ELSE Head(ss) \o Flatten(Tail(ss))

\* str.startswith
StartsWith(c, p) == Len(c) >= Len(p) /\ SubSeq(c, 1, Len(p)) = p

RECURSIVE Split(_, _)
\* str.split(sep) for a one-lexeme separator: n separators give n+1 parts.
Split(c, sep) ==
  LET P == {i \in 1..Len(c) : c[i] = sep}
  IN  IF P = {} THEN <<c>>
      ELSE LET i == CHOOSE k \in P : \A l \in P : k <= l
           IN  <<SubSeq(c, 1, i - 1)>> \o Split(From(c, i + 1), sep)

RECURSIVE Join(_, _)
\* sep.join(parts)
Join(parts, sep) ==
  IF parts = <<>> THEN <<>>
  ELSE IF Len(parts) = 1 THEN parts[1]
  ELSE parts[1] \o sep \o Join(Tail(parts), sep)

RECURSIVE LStrip(_)
LStrip(c) == IF c # <<>> /\ Head(c) \in WS THEN LStrip(Tail(c)) ELSE c

RECURSIVE RStrip(_)
RStrip(c) ==
  IF c # <<>> /\ c[Len(c)] \in WS THEN RStrip(SubSeq(c, 1, Len(c) - 1)) ELSE c

\* str.strip()
Strip(c) == RStrip(LStrip(c))

\* ------------------------------------------- transform_external_imports

\* r'use\s+paraphym_memory::' matches with its "use" in lexeme i.
ExternalAt(c, i) ==
  /\ EndsWithUse(At(c, i))
  /\ At(c, i + 1) \in WS
  /\ At(c, SkipWs(c, i + 1)) = "paraphym_memory"
  /\ At(c, SkipWs(c, i + 1) + 1) = "::"

RECURSIVE ExternalSub(_, _)
\* re.sub(pattern, replacement, content), scanning from position i.
ExternalSub(c, i) ==
  IF i > Len(c) THEN <<>>
  ELSE IF ExternalAt(c, i)
       THEN <<c[i], SP, "paraphym_candle", "::", "memory", "::">>
              \o ExternalSub(c, SkipWs(c, i + 1) + 2)
       ELSE <<c[i]>> \o ExternalSub(c, i + 1)

transform_external_imports(content) == ExternalSub(content, 1)

\* ------------------------------------ transform_internal_memory_imports

\* r'use\s+crate::' matches with its "use" in lexeme i; the position after it.
CrateEnd(c, i) == SkipWs(c, i + 1) + 2

UseCrateAt(c, i) ==
  /\ EndsWithUse(At(c, i))
  /\ At(c, i + 1) \in WS
  /\ At(c, SkipWs(c, i + 1)) = "crate"
  /\ At(c, SkipWs(c, i + 1) + 1) = "::"

\* The negative lookahead (?!memory::) at position j.
NotMemoryAhead(c, j) == ~(At(c, j) = "memory" /\ At(c, j + 1) = "::")

\* pattern1 = r'use\s+crate::(?!memory::)(\w+(?:::\w+)*)'
Pattern1At(c, i) ==
  /\ UseCrateAt(c, i)
  /\ NotMemoryAhead(c, CrateEnd(c, i))
  /\ At(c, CrateEnd(c, i)) \in Word

RECURSIVE PathEnd(_, _)
\* (?:::\w+)* from position k (just after a \w+): the position after the path.
PathEnd(c, k) ==
  IF At(c, k) = "::" /\ At(c, k + 1) \in Word
  THEN PathEnd(c, SkipWord(c, k + 1))
  ELSE k

\* The position after a pattern1 match that starts in lexeme i.
Pattern1End(c, i) == PathEnd(c, SkipWord(c, CrateEnd(c, i)))

\* replace1: f'use crate::memory::{match.group(1)}'
replace1(c, i) ==
  <<c[i], SP, "crate", "::", "memory", "::">>
    \o SubSeq(c, CrateEnd(c, i), Pattern1End(c, i) - 1)

RECURSIVE Pattern1Sub(_, _)
\* re.sub(pattern1, replace1, content), scanning from position i.
Pattern1Sub(c, i) ==
  IF i > Len(c) THEN <<>>
  ELSE IF Pattern1At(c, i)
       THEN replace1(c, i) \o Pattern1Sub(c, Pattern1End(c, i))
       ELSE <<c[i]>> \o Pattern1Sub(c, i + 1)

\* The first "}" at or after position j, or Len(c)+1.
RECURSIVE CloseBrace(_, _)
CloseBrace(c, j) ==
  IF j > Len(c) \/ c[j] = "}" THEN j ELSE CloseBrace(c, j + 1)

\* pattern2 = r'use\s+crate::\{([^}]+)\}'
Pattern2At(c, i) ==
  /\ UseCrateAt(c, i)
  /\ At(c, CrateEnd(c, i)) = "{"
  /\ CrateEnd(c, i) + 1 <= Len(c)
  /\ At(c, CrateEnd(c, i) + 1) # "}"
  /\ CloseBrace(c, CrateEnd(c, i) + 1) <= Len(c)

\* The reserved root-level names of replace2.
Reserved == {<<"Error">>, <<"Result">>}

\* A plausible slip: the test for the reserved names left out.
KeepItemUnreserved(item) == StartsWith(item, <<"memory", "::">>)

\* Whether replace2 leaves an item as it is.
KeepItem(item) == StartsWith(item, <<"memory", "::">>) \/ item \in Reserved

\* One item of the bracketed list, as replace2 rewrites it.
NewItem(item) == IF KeepItem(item) THEN item ELSE <<"memory", "::">> \o item

RECURSIVE NewItems(_)
\* The loop of replace2 over item_list: empty items are skipped.
NewItems(item_list) ==
  IF item_list = <<>> THEN <<>>
  ELSE LET item == Strip(Head(item_list))
       IN  IF item = <<>> THEN NewItems(Tail(item_list))
           ELSE <<NewItem(item)>> \o NewItems(Tail(item_list))

\* replace2 on the text between the braces.
replace2(items) ==
  <<SP, "crate", "::", "{">>
    \o Join(NewItems(Split(items, ",")), <<",", SP>>) \o <<"}">>

RECURSIVE Pattern2Sub(_, _)
\* re.sub(pattern2, replace2, new_content), scanning from position i.
Pattern2Sub(c, i) ==
  IF i > Len(c) THEN <<>>
  ELSE IF Pattern2At(c, i)
       THEN LET open == CrateEnd(c, i)
                close == CloseBrace(c, open + 1)
            IN  <<c[i]>> \o replace2(SubSeq(c, open + 1, close - 1))
                  \o Pattern2Sub(c, close + 1)
       ELSE <<c[i]>> \o Pattern2Sub(c, i + 1)

transform_internal_memory_imports(content) ==
  Pattern2Sub(Pattern1Sub(content, 1), 1)

\* -------------------------------------------- add_memory_module_to_lib

RECURSIVE LineStart(_, _)
\* ^\s* can end just before position i: only whitespace lies between a line
\* start (re.MULTILINE) and position i.
LineStart(c, i) ==
  \/ i = 1
  \/ At(c, i - 1) = NL
  \/ At(c, i - 1) = SP /\ LineStart(c, i - 1)

\* In r'^\s*pub\s+mod\s+\w+\s*;' with its "pub" at position i: where \w+ starts.
ModName(c, i) == SkipWs(c, SkipWs(c, i + 1) + 1)

\* The position of the ";" that ends such a match.
DeclEnd(c, i) == SkipWs(c, SkipWord(c, ModName(c, i)))

\* pub_mod_pattern = r'(^\s*pub\s+mod\s+\w+\s*;)' matches with "pub" at i.
PubModAt(c, i) ==
  /\ At(c, i) = "pub"
  /\ LineStart(c, i)
  /\ At(c, i + 1) \in WS
  /\ At(c, SkipWs(c, i + 1)) = "mod"
  /\ At(c, SkipWs(c, i + 1) + 1) \in WS
  /\ At(c, ModName(c, i)) \in Word
  /\ At(c, DeclEnd(c, i)) = ";"

\* r'^\s*pub\s+mod\s+memory\s*;' matches with "pub" at i.
MemoryModAt(c, i) ==
  /\ PubModAt(c, i)
  /\ At(c, ModName(c, i)) = "memory"
  /\ SkipWord(c, ModName(c, i)) = ModName(c, i) + 1

\* A plausible slip: the search without re.MULTILINE, where ^ is the start
\* of the text only.
MemoryDeclaredAtStart(content) ==
  \E i \in 1..Len(content) :
    MemoryModAt(content, i) /\ \A k \in 1..(i - 1) : content[k] \in WS

\* re.search(r'^\s*pub\s+mod\s+memory\s*;', content, re.MULTILINE)
MemoryDeclared(content) == \E i \in 1..Len(content) : MemoryModAt(content, i)

\* The "pub" positions of list(re.finditer(pub_mod_pattern, content, ...)).
Matches(content) == {i \in 1..Len(content) : PubModAt(content, i)}

\* last_match.end(), as the number of lexemes before the insertion point.
InsertPos(content) ==
  DeclEnd(content, CHOOSE i \in Matches(content) : \A k \in Matches(content) : k <= i)

\* '\n/// Memory system ...\npub mod memory;'
Declaration == <<NL, DOC, NL, "pub", SP, "mod", SP, "memory", ";">>

\* The branch taken when the file holds sibling declarations.
InsertAfterLast(content) ==
  SubSeq(content, 1, InsertPos(content)) \o Declaration
    \o From(content, InsertPos(content) + 1)

\* The condition of the scan for the first line of code.
IsCodeLine(line) ==
  /\ Strip(line) # <<>>
  /\ ~StartsWithSlashes(Head(Strip(line)))
  /\ Head(Strip(line)) # "#!"

\* insert_line: the 0-based index of the first line of code, or 0.
InsertLine(lines) ==
  LET C == {i \in 1..Len(lines) : IsCodeLine(lines[i])}
  IN  IF C = {} THEN 0 ELSE (CHOOSE i \in C : \A k \in C : i <= k) - 1

\* The branch taken when the file holds no sibling declaration.
InsertAtTop(content) ==
  LET lines == Split(content, NL)
      n == InsertLine(lines)
  IN  Join(SubSeq(lines, 1, n)
             \o << <<DOC>>, <<"pub", SP, "mod", SP, "memory", ";">>, <<>> >>
             \o From(lines, n + 1), <<NL>>)

\* new_content of add_memory_module_to_lib, for a file that is to change.
NewLibContent(content) ==
  IF Matches(content) # {} THEN InsertAfterLast(content) ELSE InsertAtTop(content)

\* ------------------------------------------------------------- the files

\* A plausible slip: the anchor path built from the wrong name.
lib_rs_wrong == "util.rs"

\* main: lib_rs = candle_src / 'lib.rs'
lib_rs == "lib.rs"

STORE == "memory/store.rs"
UTIL == "util.rs"
MEMORY_RS == "memory.rs"
OUTSIDE == "../vendor/memory/x.rs"

\* The files of a run of main: what candle_src.rglob('*.rs') can find.
CandleFiles == {"lib.rs", STORE, UTIL}

\* The files process_rust_file is called on directly.
UnitFiles == {"lib.rs", STORE, MEMORY_RS, OUTSIDE}

AllFiles == CandleFiles \cup UnitFiles

\* file_path.relative_to(candle_src): the parts of the relative path, or
\* ValueError for a path that does not lie under candle_src.
relative_to(f) ==
  CASE f = "lib.rs" -> [raises |-> FALSE, parts |-> <<"lib.rs">>]
    [] f = STORE -> [raises |-> FALSE, parts |-> <<"memory", "store.rs">>]
    [] f = UTIL -> [raises |-> FALSE, parts |-> <<"util.rs">>]
    [] f = MEMORY_RS -> [raises |-> FALSE, parts |-> <<"memory.rs">>]
    [] OTHER -> [raises |-> TRUE, parts |-> <<>>]

\* str(relative_path): the parts joined by "/".
PathStr(parts) == Join([i \in 1..Len(parts) |-> <<parts[i]>>], <<"/">>)

\* A plausible slip: the prefix test without the directory separator, which
\* matches the name "memory.rs" (a text that starts with "memory") as well.
is_memory_file_no_slash(f) ==
  IF relative_to(f).raises THEN FALSE
  ELSE relative_to(f).parts # <<>>
         /\ relative_to(f).parts[1] \in {"memory", "memory.rs"}

is_memory_file(f) ==
  IF relative_to(f).raises THEN FALSE
  ELSE StartsWith(PathStr(relative_to(f).parts), <<"memory", "/">>)

\* ------------------------------------------------------------- the state

VARIABLES
  pc,         \* where main is; "unit" and "lib" while a function is called alone
  rootExists, \* candle_src.exists()
  present,    \* the files that exist
  disk,       \* the text of each file
  disk0,      \* the text of each file when the run started
  fault,      \* per file: read_text raises ("read"), write_text raises ("write")
  reads,      \* per file: calls of read_text
  writes,     \* per file: calls of write_text
  wrote,      \* per file: the last process_rust_file wrote it
  before,     \* per file: its text when the last process_rust_file started
  ret,        \* per file: what the last process_rust_file returned
  todo,       \* the rust_files the loop of main has not reached yet
  order,      \* the files in the order process_rust_file took them
  libRet,     \* what the calls of add_memory_module_to_lib returned
  calls,      \* direct calls made so far
  hist,       \* the target's text after each direct call
  target,     \* the file of the direct calls
  input       \* how the target's text was built

vars == <<pc, rootExists, present, disk, disk0, fault, reads, writes, wrote,
          before, ret, todo, order, libRet, calls, hist, target, input>>

\* ------------------------------------------------------------ the inputs

\* The most pieces of a free text.
MaxFrags == 3
\* The most items of a bracketed statement.
MaxItems == 3
\* The most lines of an anchor file.
MaxLines == 3
\* The most direct calls of a function on one file.
MaxCalls == 2

RECURSIVE SeqsUpTo(_, _)
\* The sequences over S of length at most n.
SeqsUpTo(S, n) ==
  IF n = 0 THEN {<<>>}
  ELSE LET R == SeqsUpTo(S, n - 1)
       IN  R \cup {Append(r, x) : r \in R, x \in S}

Range(c) == {c[i] : i \in 1..Len(c)}

\* The pieces a free text is put together from.
Fragments ==
  { <<"use", SP, "crate", "::">>, <<"use", SP, "paraphym_memory", "::">>,
    <<"memory", "::">>, <<"x">>, <<"Error">>, <<"::">>, <<"{">>, <<"}">>,
    <<",">>, <<";", NL>> }

\* The paths of the single-path statements.
PathPool ==
  { <<"x">>, <<"x", "::", "x">>, <<"memory", "::", "x">>, <<"memory">>,
    <<"Error">>, <<"Result">>, <<"Error", "::", "x">>,
    <<"memory", "::", "Error">> }

\* The items of the bracketed statements; the empty item is what a trailing
\* or doubled comma leaves.
ItemPool ==
  { <<"x">>, <<"x", "::", "x">>, <<"memory", "::", "x">>, <<"memory">>,
    <<"Error">>, <<"Result">>, <<"Error", "::", "x">>, <<>> }

\* The whitespace between "use" and "crate".
Gaps == { <<SP>>, <<SP, SP>>, <<NL, SP>> }

\* The lines of the anchor files.
LinePool ==
  { <<"pub", SP, "mod", SP, "a", ";">>,
    <<"pub", SP, "mod", SP, "a", ";", SP, "//", SP, "x">>,
    <<"pub", SP, "mod", SP, "a", ";", SP, "pub", SP, "mod", SP, "x", ";">>,
    <<SP, "pub", SP, SP, "mod", SP, "memory", SP, ";">>,
    <<"mod", SP, "memory", ";">>,
    <<"//", SP, "x">>,
    <<"#!", "x">>,
    <<>>,
    <<"use", SP, "x", ";">> }

ExtLine == <<"use", SP, "paraphym_memory", "::", "x", ";", NL>>

Prefix(in) == IF in.ext THEN ExtLine ELSE <<>>

\* The text between the braces, written tight, spaced, or one item a line
\* with a trailing comma.
Inner(items, style) ==
  CASE style = "tight" -> Join(items, <<",">>)
    [] style = "spaced" -> Join(items, <<",", SP>>)
    [] OTHER -> Flatten([i \in 1..Len(items) |-> <<NL, SP>> \o items[i] \o <<",">>])
                  \o <<NL>>

\* The text an input stands for.
Render(in) ==
  CASE in.kind = "free" -> Flatten(in.items)
    [] in.kind = "simple" ->
         Prefix(in) \o <<"use">> \o in.gap \o <<"crate", "::">> \o in.items[1] \o <<";">>
    [] in.kind = "bracket" ->
         Prefix(in) \o <<"use">> \o in.gap \o <<"crate", "::", "{">>
           \o Inner(in.items, in.style) \o <<"}", ";">>
    [] in.kind = "lib" -> Join(in.items, <<NL>>)
    [] OTHER -> <<>>

NoInput == [kind |-> "none", ext |-> FALSE, gap |-> <<>>, items |-> <<>>, style |-> "none"]

FreeInputs ==
  {[kind |-> "free", ext |-> FALSE, gap |-> <<>>, items |-> fs, style |-> "none"] :
     fs \in SeqsUpTo(Fragments, MaxFrags)}

SimpleInputs ==
  {[kind |-> "simple", ext |-> e, gap |-> g, items |-> <<p>>, style |-> "none"] :
     e \in BOOLEAN, g \in Gaps, p \in PathPool}

BracketInputs ==
  {[kind |-> "bracket", ext |-> FALSE, gap |-> <<SP>>, items |-> is, style |-> st] :
     is \in SeqsUpTo(ItemPool, MaxItems) \ {<<>>},
     st \in {"tight", "spaced", "lines"}}

RuleInputs == FreeInputs \cup SimpleInputs \cup BracketInputs

LibInputs ==
  {[kind |-> "lib", ext |-> FALSE, gap |-> <<>>, items |-> ls, style |-> "none"] :
     ls \in SeqsUpTo(LinePool, MaxLines)}

\* The anchor texts of the runs of main.
MainLibTexts ==
  { <<"pub", SP, "mod", SP, "a", ";", NL>>,
    <<"pub", SP, "mod", SP, "a", ";", NL>> \o ExtLine,
    <<"pub", SP, "mod", SP, "memory", ";", NL>>,
    <<"pub", SP, "mod", SP, "memory", ";", NL>> \o ExtLine }

\* The texts of the other files of the runs of main.
MainTexts ==
  { <<"use", SP, "crate", "::", "x", ";", NL>>,
    ExtLine,
    <<"use", SP, "crate", "::", "memory", "::", "x", ";", NL>>,
    <<"use", SP, "crate", "::", "{", "Error", ",", SP, "x", "}", ";", NL>> }

Faults == {"none", "read", "write"}

\* ----------------------------------------------------- process_rust_file

\* The rules process_rust_file applies to the text of file f.
Rules(f, text) ==
  IF is_memory_file(f)
  THEN transform_internal_memory_imports(transform_external_imports(text))
  ELSE transform_external_imports(text)

\* A plausible slip: the file is written back whether or not it changed.
WriteAlways(content, original_content) == TRUE

\* if content != original_content:
WriteBack(content, original_content) == content # original_content

\* A plausible slip: a handler that covers the read alone.
CaughtReadOnly(err) == err = "read"

\* except Exception as e: every error of read_text and write_text is one.
Caught(err) == TRUE

\* Whether read_text of f raises.
ReadFails(f) == fault[f] = "read"

\* Whether process_rust_file gets as far as write_text on f.
WantsWrite(f) == ~ReadFails(f) /\ WriteBack(Rules(f, disk[f]), disk[f])

\* The error process_rust_file meets on f, or "none".
ErrorIn(f) ==
  IF ReadFails(f) THEN "read"
  ELSE IF WantsWrite(f) /\ fault[f] = "write" THEN "write"
  ELSE "none"

\* Whether a call of process_rust_file on f raises to its caller.
ProcessRaises(f) == ErrorIn(f) # "none" /\ ~Caught(ErrorIn(f))

\* process_rust_file(f, candle_src).  A write_text that raises leaves the file
\* as it was (the error of a file that cannot be opened for writing).
process_rust_file(f) ==
  /\ reads' = [reads EXCEPT ![f] = @ + 1]
  /\ writes' = [writes EXCEPT ![f] = IF WantsWrite(f) THEN @ + 1 ELSE @]
  /\ before' = [before EXCEPT ![f] = disk[f]]
  /\ wrote' = [wrote EXCEPT ![f] = WantsWrite(f) /\ ErrorIn(f) = "none"]
  /\ disk' = [disk EXCEPT ![f] =
                IF WantsWrite(f) /\ ErrorIn(f) = "none" THEN Rules(f, @) ELSE @]
  /\ ret' = [ret EXCEPT ![f] =
               IF ProcessRaises(f) THEN "raised"
               ELSE IF WantsWrite(f) /\ ErrorIn(f) = "none" THEN "True"
               ELSE "False"]
  /\ order' = Append(order, f)

\* ---------------------------------------------- add_memory_module_to_lib

\* if not lib_rs_path.exists():
Missing(f) == f \notin present

\* The error add_memory_module_to_lib meets on f, or "none".
ErrorInLib(f) ==
  IF Missing(f) THEN "none"
  ELSE IF fault[f] = "read" THEN "read"
  ELSE IF ~MemoryDeclared(disk[f]) /\ fault[f] = "write" THEN "write"
  ELSE "none"

\* What add_memory_module_to_lib returns on f when it returns.
LibReturns(f) ==
  ~Missing(f) /\ ErrorInLib(f) = "none" /\ ~MemoryDeclared(disk[f])

\* add_memory_module_to_lib(f): nothing here catches an error.
add_memory_module_to_lib(f) ==
  /\ reads' = [reads EXCEPT ![f] = IF Missing(f) THEN @ ELSE @ + 1]
  /\ writes' = [writes EXCEPT ![f] =
                  IF ~Missing(f) /\ ErrorInLib(f) # "read" /\ ~MemoryDeclared(disk[f])
                  THEN @ + 1 ELSE @]
  /\ disk' = [disk EXCEPT ![f] = IF LibReturns(f) THEN NewLibContent(@) ELSE @]
  /\ libRet' = IF ErrorInLib(f) # "none" THEN Append(libRet, "raised")
               ELSE IF LibReturns(f) THEN Append(libRet, "True")
               ELSE Append(libRet, "False")

\* ------------------------------------------------------------------ main

\* A plausible slip: no check of the source root.
RootNeverMissing == FALSE

\* if not candle_src.exists():
SourceRootMissing == ~rootExists

\* rust_files = list(candle_src.rglob('*.rs'))
RustFiles == {f \in present : ~relative_to(f).raises}

Zero == [f \in AllFiles |-> 0]

Quiet ==
  /\ reads = Zero /\ writes = Zero
  /\ wrote = [f \in AllFiles |-> FALSE]
  /\ before = [f \in AllFiles |-> <<>>]
  /\ ret = [f \in AllFiles |-> "none"]
  /\ todo = {} /\ order = <<>> /\ libRet = <<>> /\ calls = 0 /\ hist = <<>>
  /\ disk0 = disk

\* A run of main: the tree either is not there, or holds the three files
\* (lib.rs possibly not), each with one of the texts and one of the faults.
Init ==
  /\ pc = "start"
  /\ target = "lib.rs"
  /\ input = NoInput
  /\ rootExists \in BOOLEAN
  /\ IF rootExists
     THEN /\ present \in {CandleFiles, CandleFiles \ {"lib.rs"}}
          /\ \E l \in MainLibTexts, s \in MainTexts, u \in MainTexts :
               disk = [f \in AllFiles |->
                         IF f \notin present THEN <<>>
                         ELSE IF f = "lib.rs" THEN l
                         ELSE IF f = STORE THEN s
                         ELSE IF f = UTIL THEN u ELSE <<>>]
          /\ \E ft \in [CandleFiles -> Faults] :
               fault = [f \in AllFiles |->
                          IF f \in present THEN ft[f] ELSE "none"]
     ELSE /\ present = {}
          /\ disk = [f \in AllFiles |-> <<>>]
          /\ fault = [f \in AllFiles |-> "none"]
  /\ Quiet

\* The check of the source root at the top of main.
MainCheckRoot ==
  /\ pc = "start"
  /\ pc' = IF SourceRootMissing THEN "aborted" ELSE "insert"
  /\ UNCHANGED <<rootExists, present, disk, disk0, fault, reads, writes, wrote,
                 before, ret, todo, order, libRet, calls, hist, target, input>>

\* Step 1: add_memory_module_to_lib(lib_rs); its result is not looked at,
\* and an error it raises ends main.
MainInsert ==
  /\ pc = "insert"
  /\ add_memory_module_to_lib(lib_rs)
  /\ pc' = IF ErrorInLib(lib_rs) # "none" THEN "insert_raised" ELSE "scan"
  /\ UNCHANGED <<rootExists, present, disk0, fault, wrote, before, ret, todo,
                 order, calls, hist, target, input>>

\* Step 2: the list of the files to process.
MainScan ==
  /\ pc = "scan"
  /\ todo' = RustFiles
  /\ pc' = "loop"
  /\ UNCHANGED <<rootExists, present, disk, disk0, fault, reads, writes, wrote,
                 before, ret, order, libRet, calls, hist, target, input>>

\* One turn of the loop over rust_files, which rglob gives in any order.
MainProcess(f) ==
  /\ pc = "loop"
  /\ f \in todo
  /\ process_rust_file(f)
  /\ todo' = todo \ {f}
  /\ pc' = IF ProcessRaises(f) THEN "loop_raised" ELSE "loop"
  /\ UNCHANGED <<rootExists, present, disk0, fault, libRet, calls, hist,
                 target, input>>

\* The loop is over: the summary is printed.
MainDone ==
  /\ pc = "loop"
  /\ todo = {}
  /\ pc' = "done"
  /\ UNCHANGED <<rootExists, present, disk, disk0, fault, reads, writes, wrote,
                 before, ret, todo, order, libRet, calls, hist, target, input>>

Next ==
  \/ MainCheckRoot
  \/ MainInsert
  \/ MainScan
  \/ \E f \in CandleFiles : MainProcess(f)
  \/ MainDone

Spec == Init /\ [][Next]_vars

\* ------------------------------------- process_rust_file, called directly

\* One file under the rules: any of the unit files, with any of the texts.
InitRules ==
  /\ pc = "unit"
  /\ rootExists = TRUE
  /\ target \in UnitFiles
  /\ input \in RuleInputs
  /\ input.kind = "bracket" => target \in {STORE, MEMORY_RS}
  /\ present = {target}
  /\ disk = [f \in AllFiles |-> IF f = target THEN Render(input) ELSE <<>>]
  /\ fault = [f \in AllFiles |-> "none"]
  /\ Quiet

\* process_rust_file(target, candle_src), as a later run calls it again.
CallProcess ==
  /\ pc = "unit"
  /\ calls < MaxCalls
  /\ process_rust_file(target)
  /\ calls' = calls + 1
  /\ hist' = Append(hist, disk'[target])
  /\ UNCHANGED <<pc, rootExists, present, disk0, fault, todo, libRet, target,
                 input>>

NextRules == CallProcess

SpecRules == InitRules /\ [][NextRules]_vars

\* ------------------------------ add_memory_module_to_lib, called directly

\* An anchor file of up to MaxLines lines.
InitLib ==
  /\ pc = "lib"
  /\ rootExists = TRUE
  /\ target = "lib.rs"
  /\ input \in LibInputs
  /\ present = {target}
  /\ disk = [f \in AllFiles |-> IF f = target THEN Render(input) ELSE <<>>]
  /\ fault = [f \in AllFiles |-> "none"]
  /\ Quiet

\* add_memory_module_to_lib(target), as a later run calls it again.
CallInsert ==
  /\ pc = "lib"
  /\ calls < MaxCalls
  /\ add_memory_module_to_lib(target)
  /\ calls' = calls + 1
  /\ hist' = Append(hist, disk'[target])
  /\ UNCHANGED <<pc, rootExists, present, disk0, fault, wrote, before, ret,
                 todo, order, target, input>>

NextLib == CallInsert

SpecLib == InitLib /\ [][NextLib]_vars

\* ============================================================ the claims

\* What transform_external_imports makes of ExtLine.
ExtLineDone == <<"use", SP, "paraphym_candle", "::", "memory", "::", "x", ";", NL>>

PrefixDone(in) == IF in.ext THEN ExtLineDone ELSE <<>>

\* The paths and items that are to stay as they are: the reserved names, and
\* what already lies under memory::.
Exempt(path) ==
  \/ path = <<"Error">>
  \/ path = <<"Result">>
  \/ Len(path) >= 2 /\ path[1] = "memory" /\ path[2] = "::"

\* A file that does not lie under memory/ of the source root.
Unmanaged(f) ==
  \/ relative_to(f).raises
  \/ Len(relative_to(f).parts) < 2
  \/ relative_to(f).parts[1] # "memory"

\* C1: idempotency of the full rule set: what the rules make of their own
\* output is that output, apply(apply(C)) = apply(C), for every file.
C1_Idempotent == Len(hist) >= 2 => hist[2] = hist[1]

\* C2: unmanaged-file isolation.  In a file that is not under memory/ (or not
\* under the source root at all) process_rust_file applies the external remap
\* and nothing else: the result is the external remap of the text, and every
\* statement (the text up to a ";") that names no paraphym_memory is left as
\* it was, the use crate:: statements among them.  In every file, managed or
\* not, no 'use paraphym_memory::' is left.
C2_UnmanagedIsolation ==
  (pc = "unit" /\ calls >= 1) =>
    /\ \A i \in 1..Len(hist[1]) : ~ExternalAt(hist[1], i)
    /\ Unmanaged(target) =>
         LET old == Split(disk0[target], ";")
             new == Split(hist[1], ";")
         IN  /\ hist[1] = transform_external_imports(disk0[target])
             /\ Len(new) = Len(old)
             /\ \A i \in 1..Len(old) :
                  "paraphym_memory" \notin Range(old[i]) => new[i] = old[i]

\* C2's case: an unmanaged file with an external import and a use crate::
\* statement, processed: the first rewritten, the second as it was.
C2_Witness ==
  /\ pc = "unit" /\ calls >= 1
  /\ target = MEMORY_RS
  /\ input.kind = "simple" /\ input.ext /\ input.items = << <<"x">> >>
  /\ input.gap = <<SP, SP>>
  /\ hist[1] = ExtLineDone \o <<"use", SP, SP, "crate", "::", "x", ";">>
  /\ ret[target] = "True"

\* The item list C3 states for a bracketed statement.
RECURSIVE ExpectedItems(_)
ExpectedItems(items) ==
  IF items = <<>> THEN <<>>
  ELSE IF Head(items) = <<>> THEN ExpectedItems(Tail(items))
  ELSE IF Exempt(Head(items)) THEN <<Head(items)>> \o ExpectedItems(Tail(items))
  ELSE << <<"memory", "::">> \o Head(items) >> \o ExpectedItems(Tail(items))

\* C3: in a managed file, 'use crate::{i1, ..., in}' becomes the statement
\* whose items are the non-empty trimmed items of the input in their order,
\* Error, Result and memory::... as they were, every other item with memory::
\* before it.
C3_BracketedRemap ==
  (pc = "unit" /\ calls >= 1 /\ input.kind = "bracket" /\ target = STORE) =>
    hist[1] = PrefixDone(input) \o <<"use", SP, "crate", "::", "{">>
                \o Join(ExpectedItems(input.items), <<",", SP>>) \o <<"}", ";">>

\* C3's case: use crate::{Error, x::x, memory::x} in a managed file, rewritten.
C3_Witness ==
  /\ pc = "unit" /\ calls >= 1 /\ target = STORE
  /\ input.kind = "bracket" /\ input.style = "spaced" /\ ~input.ext
  /\ input.items = << <<"Error">>, <<"x", "::", "x">>, <<"memory", "::", "x">> >>
  /\ hist[1] = <<"use", SP, "crate", "::", "{", "Error", ",", SP,
                 "memory", "::", "x", "::", "x", ",", SP,
                 "memory", "::", "x", "}", ";">>

\* C4: in a managed file, 'use crate::<path>' becomes
\* 'use crate::memory::<path>' unless the path already starts with memory::
\* or is Error or Result, which stay as they are.
C4_SimpleRemap ==
  (pc = "unit" /\ calls >= 1 /\ input.kind = "simple" /\ target = STORE) =>
    hist[1] = PrefixDone(input)
                \o (IF Exempt(input.items[1])
                    THEN <<"use">> \o input.gap \o <<"crate", "::">>
                    ELSE <<"use", SP, "crate", "::", "memory", "::">>)
                \o input.items[1] \o <<";">>

\* The declaration as add_memory_module_to_lib writes it.
DeclLine == <<"pub", SP, "mod", SP, "memory", ";">>

\* How often the lexemes p occur in c.
Occurrences(c, p) ==
  Cardinality({i \in 1..Len(c) : i + Len(p) - 1 <= Len(c)
                                   /\ SubSeq(c, i, i + Len(p) - 1) = p})

\* The number (from 1) of the line that holds position i of c.
LineOf(c, i) == 1 + Cardinality({k \in 1..i : c[k] = NL})

\* C5: single insertion.  The first add_memory_module_to_lib returns True
\* exactly when the anchor holds no line matching the declaration, and then
\* it has added the declaration once; a file that holds one is left as it
\* was.  The second finds the declaration, returns False and leaves the text
\* as the first left it.
C5_SingleInsertion ==
  (pc = "lib" /\ calls >= 1) =>
    LET text == disk0["lib.rs"]
        declared == MemoryDeclared(text)
    IN  /\ libRet[1] = IF declared THEN "False" ELSE "True"
        /\ declared => hist[1] = text
        /\ Occurrences(hist[1], DeclLine)
             = Occurrences(text, DeclLine) + (IF declared THEN 0 ELSE 1)
        /\ Occurrences(hist[1], <<DOC>>)
             = Occurrences(text, <<DOC>>) + (IF declared THEN 0 ELSE 1)
        /\ calls >= 2 => libRet[2] = "False" /\ hist[2] = hist[1]

\* C5's case: an anchor with a sibling declaration and no memory declaration,
\* after two calls: the first inserted, the second did not.
C5_Witness ==
  /\ pc = "lib" /\ calls = 2
  /\ libRet = <<"True", "False">>
  /\ Matches(disk0["lib.rs"]) # {}
  /\ hist[2] = hist[1]
  /\ Occurrences(hist[2], DeclLine) = 1

\* C10: with a sibling declaration and no memory declaration, the two new
\* lines go between the line that holds the last sibling declaration and the
\* line after it; every line of the file is kept whole and in its place.
C10_AfterSiblingLine ==
  (pc = "lib" /\ calls >= 1 /\ ~MemoryDeclared(disk0["lib.rs"])
     /\ Matches(disk0["lib.rs"]) # {}) =>
    LET text == disk0["lib.rs"]
        lines == Split(text, NL)
        k == LineOf(text, InsertPos(text))
    IN  Split(hist[1], NL)
          = SubSeq(lines, 1, k) \o << <<DOC>>, DeclLine >> \o From(lines, k + 1)

\* The files process_rust_file has been called on.
Processed == {f \in AllFiles : ret[f] # "none"}

\* C6, as amended: process_rust_file writes the file exactly when the text
\* after the rules differs from the text read and neither read_text nor
\* write_text raises; it returns True exactly when it wrote; a file whose
\* text the rules leave alone, or that could not be read, holds the text it
\* held.
C6_WriteOnChange ==
  \A f \in Processed :
    /\ wrote[f] <=> (Rules(f, before[f]) # before[f] /\ fault[f] = "none")
    /\ ret[f] = "True" <=> wrote[f]
    /\ wrote[f] => disk[f] = Rules(f, before[f])
    /\ (~wrote[f] /\ fault[f] # "write") => disk[f] = before[f] /\ writes[f] <= 1

\* C6's case: a run that has written one file that the rules change and has
\* left alone one that they do not.
C6_Witness ==
  /\ pc = "done"
  /\ ret[STORE] = "True" /\ wrote[STORE] /\ disk[STORE] # before[STORE]
  /\ ret[UTIL] = "False" /\ ~wrote[UTIL] /\ fault[UTIL] = "none"
  /\ writes[UTIL] = 0

\* C6 as stated: the file is written if and only if the text after the rules
\* differs from the text read, and True is returned exactly then.
C6_AsStated ==
  \A f \in Processed :
    fault[f] # "read" =>
      /\ wrote[f] <=> Rules(f, before[f]) # before[f]
      /\ ret[f] = "True" <=> wrote[f]

\* Whether process_rust_file met an error on f.
Failed(f) ==
  \/ fault[f] = "read"
  \/ fault[f] = "write" /\ Rules(f, before[f]) # before[f]

C8_Preconditions ==
  /\ ~rootExists =>
       /\ pc \in {"start", "aborted"}
       /\ reads = Zero /\ writes = Zero /\ disk = disk0
  /\ (rootExists /\ "lib.rs" \notin present) =>
       /\ reads["lib.rs"] = 0 /\ writes["lib.rs"] = 0
       /\ pc \notin {"aborted", "insert_raised"}
       /\ Len(libRet) >= 1 => libRet = <<"False">>
       /\ pc = "done" => RustFiles \subseteq Processed

\* C8's case: main has stopped for want of the source root.
C8_Witness == pc = "aborted" /\ ~rootExists /\ reads = Zero /\ writes = Zero

\* C8 as stated: without the source root or without lib.rs no file is read
\* or written.
C8_AsStated ==
  (~rootExists \/ "lib.rs" \notin present) => reads = Zero /\ writes = Zero

\* C9, as amended: in one run of main every file but lib.rs is read at most
\* once and written at most once; lib.rs, which add_memory_module_to_lib and
\* process_rust_file both take, at most twice.
C9_FileAccess ==
  \A f \in AllFiles :
    /\ reads[f] <= IF f = "lib.rs" THEN 2 ELSE 1
    /\ writes[f] <= IF f = "lib.rs" THEN 2 ELSE 1

\* C9's case: a finished run that read and wrote lib.rs twice.
C9_Witness ==
  /\ pc = "done"
  /\ reads["lib.rs"] = 2 /\ writes["lib.rs"] = 2
  /\ reads[STORE] = 1 /\ writes[STORE] = 1

\* C9 as stated: every file, lib.rs too, is read at most once and written at
\* most once.
C9_AsStated == \A f \in AllFiles : reads[f] <= 1 /\ writes[f] <= 1

====
